---- MODULE Spec2Model ----
(***************************************************************************)
(* rl-visualizer: the panel-grid layout of GridViewer and FeatureViewer,   *)
(* the feature inspector (ImageViewer click -> FeatureViewer cross-section)*)
(* the recording session of the producer API, and the viewing client      *)
(* (App, FileUpload, Sidebar, TimestepSlider) with its requests.           *)
(*                                                                         *)
(* Numbers are JavaScript numbers in the source.  Every quantity modelled  *)
(* here is an integer far below 2^53 or a quotient of two such integers,   *)
(* so Math.floor / Math.ceil of a quotient are computed exactly with \div. *)
(***************************************************************************)
EXTENDS Integers, Sequences, FiniteSets, TLC

VARIABLES
    \* ---- layout (GridViewer.tsx, FeatureViewer.tsx drawFeatures) ----
    numPanels,      \* array.length / cells.length: the panel count D
    panelDim,       \* data.length of one panel: c (the panel is c x c)
    canvasWidth,    \* useState canvasWidth
    canvasHeight,   \* useState canvasHeight
    gridSpacing,    \* prop gridSpacing
    gvCanvas,       \* what GridViewer.tsx drawGrid has put on its canvas
    fvCanvas,       \* what FeatureViewer.tsx drawFeatures has put on its canvas
    gv0Canvas,      \* what the superseded GridViewer (canvasSize) has drawn
    \* ---- feature inspector (App.tsx, ImageViewer.tsx, FeatureViewer.tsx) ----
    \* (FeatureViewer keeps its own canvasWidth, canvasHeight and gridSpacing,
    \*  and draws on fvCanvas)
    data,                     \* App: data of the current timestep, per attribute
    selectedGridAttributes,   \* App: the GRID attributes ticked in the sidebar
    gridData,                 \* App: what the gridData effect derived from both
    clickPos,                 \* ImageViewer: normalized click, or NoPos
    popupContainer,           \* ImageViewer: the popup's #feature-root, or Null
    popupPolls,               \* ImageViewer: checkReady intervals still polling
    selectedAttr,             \* FeatureViewer: chosen grid attribute, or Null
    cellPos,                  \* FeatureViewer: clicked cell, or NoPos
    fvError,                  \* what the inspector has thrown or reported
    extracted,                \* the last getFeatureCells call: its array and result
    \* ---- recording session (README.md: the rlviz producer API) ----
    recState,       \* Unconfigured, Configured, Recording or Finalized
    schema,         \* the attributes of init_attributes: a sequence of [name, kind]
    buffer,         \* the current step buffer: name -> value
    episodeLog,     \* the completed StepRecords of the session
    store,          \* the AttributeStore at the destination, once written
    lastCall,       \* the last API call and the error it failed with
    \* ---- what the producer did, kept to compare the store against ----
    stepsEnded,     \* successful end_step calls since start_recording
    addedValues,    \* <<step, name>> -> the value a successful add passed
    \* ---- viewing client (App.tsx, FileUpload, Sidebar.tsx, TimestepSlider) ----
    mounted,                  \* App: the mount effects have run
    file,                     \* FileUpload: the chosen file, or Null
    message,                  \* FileUpload: the message it shows
    uploads,                  \* POST /upload_file requests in flight
    fileUploaded,             \* App: an upload returned OK
    serverStore,              \* the store the server has loaded, or Null
    attrFetch,                \* Sidebar: where fetchAttributes stands, and its locals
    colorAttributes,          \* Sidebar: the COLOR names offered
    textAttributes,           \* Sidebar: the TEXT names offered
    gridAttributes,           \* Sidebar: the GRID names offered
    numFetch,                 \* TimestepSlider: where fetchNumTimesteps stands
    numTimesteps,             \* TimestepSlider: the count in use
    timestep,                 \* App: the current timestep
    selectedColorAttributes,  \* App: chosen COLOR attributes
    selectedTextAttributes,   \* App: chosen TEXT attributes
    dataInFlight,             \* GET /data requests in flight
    lastQuery,                \* the last query answered, and how
    dataFailed                \* some GET /data request has failed

layoutVars == <<numPanels, panelDim, canvasWidth, canvasHeight, gridSpacing,
                gvCanvas, fvCanvas, gv0Canvas>>

inspectVars == <<data, selectedGridAttributes, gridData, clickPos, popupContainer,
                 popupPolls, selectedAttr, cellPos, fvError, extracted>>

recVars == <<recState, schema, buffer, episodeLog, store, lastCall,
            stepsEnded, addedValues>>

clientVars == <<mounted, file, message, uploads, fileUploaded, serverStore,
               attrFetch, colorAttributes, textAttributes, gridAttributes,
               numFetch, numTimesteps, timestep, selectedColorAttributes,
               selectedTextAttributes, dataInFlight, lastQuery, dataFailed>>

vars == <<layoutVars, inspectVars, recVars, clientVars>>

(***************************************************************************)
(* Bounds of the model.                                                    *)
(***************************************************************************)
MaxPanels == 10
MaxPanelDim == 3
MaxBox == 10
MaxSpacing == 2
MaxStack == 2        \* panels per grid attribute in the inspected data
SmallDim == 2        \* the small panel size of the inspected data
MaxPolls == 1        \* checkReady intervals pending at once
MaxSteps == 3        \* completed steps of one recording session

(***************************************************************************)
(* Math helpers, computed as the JavaScript built-ins compute them on the  *)
(* integers and integer quotients of this model.                           *)
(***************************************************************************)
Min(a, b) == IF a <= b THEN a ELSE b

Max(a, b) == IF a >= b THEN a ELSE b

\* Math.floor(a / b) for integers a and b > 0
FloorDiv(a, b) == a \div b

\* Math.ceil(a / b) for integers a and b > 0
CeilDiv(a, b) == -((-a) \div b)

RECURSIVE SqrtFrom(_, _)
SqrtFrom(n, r) == IF (r + 1) * (r + 1) > n THEN r ELSE SqrtFrom(n, r + 1)

\* Math.floor(Math.sqrt(n)) for an integer n >= 0
FloorSqrt(n) == SqrtFrom(n, 0)

Range(seq) == {seq[i] : i \in DOMAIN seq}

Blank == [drawn |-> FALSE]

(***************************************************************************)
(* GridViewer.tsx: convertToGrid.  width is the number of columns, height  *)
(* the number of rows.                                                     *)
(***************************************************************************)
RECURSIVE GridLoop(_, _, _)
GridLoop(n, gridWidth, gridHeight) ==
    IF gridWidth * gridHeight < n
    THEN GridLoop(n, gridWidth + 1, CeilDiv(n, gridWidth + 1))
    ELSE [width |-> gridWidth, height |-> gridHeight]

\* a slip that rounds the row count down and has no correction loop
convertToGridFloor(n) ==
    [width |-> FloorSqrt(n), height |-> FloorDiv(n, FloorSqrt(n))]

\* a slip that takes the rounded-up square root for the width
convertToGridCeilSqrt(n) ==
    LET gridWidth == IF FloorSqrt(n) * FloorSqrt(n) = n
                     THEN FloorSqrt(n) ELSE FloorSqrt(n) + 1
        gridHeight == CeilDiv(n, gridWidth)
    IN  GridLoop(n, gridWidth, gridHeight)

convertToGrid(n) ==
    LET gridWidth == FloorSqrt(n)
        gridHeight == CeilDiv(n, gridWidth)
    IN  GridLoop(n, gridWidth, gridHeight)

(***************************************************************************)
(* GridViewer.tsx: drawPanel.  The cells fillRect'ed for a c x c panel     *)
(* drawn at (x, y) with the given width; cell (i, j) is row i, column j.   *)
(***************************************************************************)
\* a slip that floors the extent of a cell as well as its origin
drawPanelFloorExtent(x, y, width, height, c) ==
    [ij \in (0 .. c - 1) \X (0 .. c - 1) |->
        [x |-> x + FloorDiv(ij[2] * width, c),
         y |-> y + FloorDiv(ij[1] * width, c),
         w |-> FloorDiv(width, c),
         h |-> FloorDiv(width, c)]]

drawPanel(x, y, width, height, c) ==
    [ij \in (0 .. c - 1) \X (0 .. c - 1) |->
        [x |-> x + FloorDiv(ij[2] * width, c),
         y |-> y + FloorDiv(ij[1] * width, c),
         w |-> CeilDiv(width, c),
         h |-> CeilDiv(width, c)]]

\* the pixels a drawn panel covers: the bounding box of its cells
PanelBox(cells, c) ==
    LET first == cells[<<0, 0>>]
        last == cells[<<c - 1, c - 1>>]
    IN  [x |-> first.x, y |-> first.y,
         w |-> last.x + last.w - first.x,
         h |-> last.y + last.h - first.y]

(***************************************************************************)
(* GridViewer.tsx: drawGrid.                                               *)
(***************************************************************************)
\* a slip that sizes the panels by the width alone (no Math.min)
drawGridNoMin(grid, n, c, cw, ch, spacing) ==
    LET panelWidth == FloorDiv(cw - (grid.width - 1) * spacing, grid.width)
        panelSize == panelWidth
    IN  [drawn |-> TRUE,
         cols |-> grid.width, rows |-> grid.height,
         cellSize |-> panelSize,
         width |-> cw, height |-> ch,
         panels |->
            [index \in 0 .. n - 1 |->
                LET col == index % grid.width
                    row == FloorDiv(index, grid.width)
                    x == col * (panelSize + spacing)
                    y == row * (panelSize + spacing)
                    cells == drawPanel(x, y, panelSize, panelSize, c)
                IN  [col |-> col, row |-> row, cells |-> cells,
                     box |-> PanelBox(cells, c)]]]

\* a slip that places the panels column-major
drawGridColumnMajor(grid, n, c, cw, ch, spacing) ==
    LET panelWidth == FloorDiv(cw - (grid.width - 1) * spacing, grid.width)
        panelHeight == FloorDiv(ch - (grid.height - 1) * spacing, grid.height)
        panelSize == Min(panelWidth, panelHeight)
    IN  [drawn |-> TRUE,
         cols |-> grid.width, rows |-> grid.height,
         cellSize |-> panelSize,
         width |-> cw, height |-> ch,
         panels |->
            [index \in 0 .. n - 1 |->
                LET row == index % grid.width
                    col == FloorDiv(index, grid.width)
                    x == col * (panelSize + spacing)
                    y == row * (panelSize + spacing)
                    cells == drawPanel(x, y, panelSize, panelSize, c)
                IN  [col |-> col, row |-> row, cells |-> cells,
                     box |-> PanelBox(cells, c)]]]

drawGrid(grid, n, c, cw, ch, spacing) ==
    LET panelWidth == FloorDiv(cw - (grid.width - 1) * spacing, grid.width)
        panelHeight == FloorDiv(ch - (grid.height - 1) * spacing, grid.height)
        panelSize == Min(panelWidth, panelHeight)
    IN  [drawn |-> TRUE,
         cols |-> grid.width, rows |-> grid.height,
         cellSize |-> panelSize,
         width |-> cw, height |-> ch,
         panels |->
            [index \in 0 .. n - 1 |->
                LET col == index % grid.width
                    row == FloorDiv(index, grid.width)
                    x == col * (panelSize + spacing)
                    y == row * (panelSize + spacing)
                    cells == drawPanel(x, y, panelSize, panelSize, c)
                IN  [col |-> col, row |-> row, cells |-> cells,
                     box |-> PanelBox(cells, c)]]]

(***************************************************************************)
(* FeatureViewer.tsx lines 335-358: drawGrid of the superseded GridViewer, *)
(* which keeps one canvasSize and passes panelWidth and panelHeight on.    *)
(***************************************************************************)
drawGridEarlier(grid, n, c, canvasSize, spacing) ==
    LET panelWidth == FloorDiv(canvasSize - (grid.width - 1) * spacing, grid.width)
        panelHeight == FloorDiv(canvasSize - (grid.height - 1) * spacing, grid.height)
    IN  [drawn |-> TRUE,
         cols |-> grid.width, rows |-> grid.height,
         cellSize |-> panelWidth,
         width |-> canvasSize, height |-> canvasSize,
         panels |->
            [index \in 0 .. n - 1 |->
                LET col == index % grid.width
                    row == FloorDiv(index, grid.width)
                    x == col * (panelWidth + spacing)
                    y == row * (panelHeight + spacing)
                    cells == drawPanel(x, y, panelWidth, panelHeight, c)
                IN  [col |-> col, row |-> row, cells |-> cells,
                     box |-> PanelBox(cells, c)]]]

(***************************************************************************)
(* FeatureViewer.tsx: drawFeatures.  The layout is computed in place, and  *)
(* the double loop draws cell idx = i * numCellsAcross + j while it is     *)
(* below numCells.                                                         *)
(***************************************************************************)
RECURSIVE CellsLoop(_, _, _)
CellsLoop(numCells, numCellsAcross, numCellsDown) ==
    IF numCellsAcross * numCellsDown < numCells
    THEN CellsLoop(numCells, numCellsAcross + 1, CeilDiv(numCells, numCellsAcross + 1))
    ELSE [width |-> numCellsAcross, height |-> numCellsDown]

\* a slip that starts from the rounded-up square root
featureGridCeilSqrt(numCells) ==
    LET numCellsAcross == IF FloorSqrt(numCells) * FloorSqrt(numCells) = numCells
                          THEN FloorSqrt(numCells) ELSE FloorSqrt(numCells) + 1
        numCellsDown == CeilDiv(numCells, numCellsAcross)
    IN  CellsLoop(numCells, numCellsAcross, numCellsDown)

featureGrid(numCells) ==
    LET numCellsAcross == FloorSqrt(numCells)
        numCellsDown == CeilDiv(numCells, numCellsAcross)
    IN  CellsLoop(numCells, numCellsAcross, numCellsDown)

drawFeatures(cells, cw, ch, spacing) ==
    LET numCells == Len(cells)
        grid == featureGrid(numCells)
        cellWidth == FloorDiv(cw - (grid.width - 1) * spacing, grid.width)
        cellHeight == FloorDiv(ch - (grid.height - 1) * spacing, grid.height)
        cellSize == Min(cellWidth, cellHeight)
        drawnIdx == {idx \in 0 .. numCells - 1 :
                        \E i \in 0 .. grid.height - 1, j \in 0 .. grid.width - 1 :
                            idx = i * grid.width + j}
    IN  [drawn |-> TRUE,
         cols |-> grid.width, rows |-> grid.height,
         cellSize |-> cellSize,
         width |-> cw, height |-> ch,
         panels |->
            [idx \in drawnIdx |->
                LET i == FloorDiv(idx, grid.width)
                    j == idx % grid.width
                IN  [col |-> j, row |-> i, value |-> cells[idx + 1],
                     box |-> [x |-> j * (cellSize + spacing),
                              y |-> i * (cellSize + spacing),
                              w |-> cellSize, h |-> cellSize]]]]

(***************************************************************************)
(* The state of App, ImageViewer and FeatureViewer before anything is      *)
(* loaded or clicked (the useState initial values).                        *)
(***************************************************************************)
Null == "null"

\* a position (click or cell) that is null
NoPos == <<>>

\* no getFeatureCells call so far
NoCall == [called |-> FALSE]

InspectorIdle ==
    /\ data = <<>>
    /\ selectedGridAttributes = <<>>
    /\ gridData = <<>>
    /\ clickPos = NoPos
    /\ popupContainer = Null
    /\ popupPolls = 0
    /\ selectedAttr = Null
    /\ cellPos = NoPos
    /\ fvError = "none"
    /\ extracted = NoCall

(***************************************************************************)
(* The recording session before init_attributes.                           *)
(***************************************************************************)
NoStore == [written |-> FALSE]

NoCallYet == [op |-> "none", name |-> "", kind |-> "", error |-> "none"]

RecorderIdle ==
    /\ recState = "Unconfigured"
    /\ schema = <<>>
    /\ buffer = <<>>
    /\ episodeLog = <<>>
    /\ store = NoStore
    /\ lastCall = NoCallYet
    /\ stepsEnded = 0
    /\ addedValues = <<>>

(***************************************************************************)
(* The viewing client as the page is first rendered (the useState initial  *)
(* values), before any effect has run.                                     *)
(***************************************************************************)
DefaultNumTimesteps == 100

NoFetch == [pc |-> "idle", listed |-> <<>>, attributes |-> <<>>, dtypes |-> <<>>]

NoQuery == [kind |-> "none", outcome |-> "none"]

ClientIdle ==
    /\ mounted = FALSE
    /\ file = Null
    /\ message = ""
    /\ uploads = {}
    /\ fileUploaded = FALSE
    /\ serverStore = Null
    /\ attrFetch = NoFetch
    /\ colorAttributes = <<>>
    /\ textAttributes = <<>>
    /\ gridAttributes = <<>>
    /\ numFetch = "idle"
    /\ numTimesteps = DefaultNumTimesteps
    /\ timestep = 0
    /\ selectedColorAttributes = <<>>
    /\ selectedTextAttributes = <<>>
    /\ dataInFlight = {}
    /\ lastQuery = NoQuery
    /\ dataFailed = FALSE

(***************************************************************************)
(* The layout as a pure function of its inputs: the inputs are drawn in    *)
(* InitLayout and each renderer is applied to them.                        *)
(***************************************************************************)
InitLayout ==
    /\ numPanels \in 1 .. MaxPanels
    /\ panelDim \in 1 .. MaxPanelDim
    /\ canvasWidth \in 0 .. MaxBox
    /\ canvasHeight \in 0 .. MaxBox
    /\ gridSpacing \in 0 .. MaxSpacing
    /\ gvCanvas = Blank
    /\ fvCanvas = Blank
    /\ gv0Canvas = Blank
    /\ InspectorIdle
    /\ RecorderIdle
    /\ ClientIdle

\* GridViewer.tsx drawGrids: convertToGrid, then drawGrid
DrawGrids ==
    /\ gvCanvas' = drawGrid(convertToGrid(numPanels), numPanels, panelDim,
                            canvasWidth, canvasHeight, gridSpacing)
    /\ UNCHANGED <<numPanels, panelDim, canvasWidth, canvasHeight, gridSpacing,
                   fvCanvas, gv0Canvas, inspectVars, recVars, clientVars>>

\* FeatureViewer.tsx drawFeatures on a cross-section of numPanels cells
DrawFeatures ==
    /\ fvCanvas' = drawFeatures([k \in 1 .. numPanels |-> 0],
                                canvasWidth, canvasHeight, gridSpacing)
    /\ UNCHANGED <<numPanels, panelDim, canvasWidth, canvasHeight, gridSpacing,
                   gvCanvas, gv0Canvas, inspectVars, recVars, clientVars>>

\* the superseded GridViewer: canvasSize = min(effectiveWidth, effectiveHeight)
DrawGridsEarlier ==
    /\ gv0Canvas' = drawGridEarlier(convertToGrid(numPanels), numPanels, panelDim,
                                    Min(canvasWidth, canvasHeight), gridSpacing)
    /\ UNCHANGED <<numPanels, panelDim, canvasWidth, canvasHeight, gridSpacing,
                   gvCanvas, fvCanvas, inspectVars, recVars, clientVars>>

NextLayout == DrawGrids \/ DrawFeatures \/ DrawGridsEarlier

SpecLayout == InitLayout /\ [][NextLayout]_vars

(***************************************************************************)
(* The feature inspector.                                                  *)
(*                                                                         *)
(* A panel stack is a sequence of panels, a panel a sequence of rows, a    *)
(* row a sequence of numbers; JavaScript index i is sequence index i + 1.  *)
(* A normalized coordinate is the exact quotient <<p, w>> = p / w of the   *)
(* click offset and the rendered image size.                               *)
(***************************************************************************)
FeatureCanvasWidth == 300
FeatureCanvasHeight == 300
FeatureGridSpacing == 2

GridAttrs == {"latent", "features"}

\* the value of an index that does not exist (panel values are 0 .. 255)
Undefined == -1

\* a stack of D panels of size S x S whose entries tell panel, row and column apart
MakeStack(D, S) ==
    [k \in 1 .. D |-> [i \in 1 .. S |-> [j \in 1 .. S |->
        (100 * (k - 1) + 10 * (i - 1) + (j - 1)) % 256]]]

\* the values a grid attribute takes over the timesteps: "latent" is a stack
\* of 0 .. MaxStack small panels, "features" one panel of the documented size
StackInputs(attr) ==
    IF attr = "latent"
    THEN {MakeStack(D, SmallDim) : D \in 0 .. MaxStack}
    ELSE {MakeStack(1, 10)}

\* what /data can answer for the grid attributes: any of them may be missing
DataInputs ==
    {d \in UNION {[sub -> UNION {StackInputs(a) : a \in GridAttrs}] :
                     sub \in SUBSET GridAttrs} :
        \A a \in DOMAIN d : d[a] \in StackInputs(a)}

\* the clicks tried: the centre, (0.99, 0), (0, 1/2), and the right and the
\* bottom edge of the image, where the normalized coordinate is 1
Clicks ==
    {<<<<1, 2>>, <<1, 2>>>>, <<<<99, 100>>, <<0, 1>>>>, <<<<0, 1>>, <<1, 2>>>>,
     <<<<1, 1>>, <<0, 1>>>>, <<<<0, 1>>, <<1, 1>>>>}

\* App.tsx: the gridData effect
IsNumberGrid(attrData) ==
    /\ Len(attrData) >= 1
    /\ Len(attrData[1]) >= 1
    /\ Len(attrData[1][1]) >= 1

deriveGridData(d, selected) ==
    [attr \in {a \in Range(selected) : a \in DOMAIN d /\ IsNumberGrid(d[a])} |-> d[attr]]

\* Sidebar.tsx toggleAttribute, the updater passed to each setter:
\* prevSelected.includes(attr) ? prevSelected.filter(a => a !== attr)
\*                              : [...prevSelected, attr]
toggle(prevSelected, attr) ==
    IF attr \in Range(prevSelected)
    THEN SelectSeq(prevSelected, LAMBDA a : a # attr)
    ELSE Append(prevSelected, attr)

\* a slip without the isGrid branch: every attribute that is not COLOR goes
\* to the TEXT selection
toggleAttributeNoGridBranch(attr, isColor, isGrid, selected) ==
    IF isColor
    THEN [selected EXCEPT !.color = toggle(selected.color, attr)]
    ELSE [selected EXCEPT !.text = toggle(selected.text, attr)]

\* Sidebar.tsx toggleAttribute: the three selection lists after the call
toggleAttribute(attr, isColor, isGrid, selected) ==
    IF isColor
    THEN [selected EXCEPT !.color = toggle(selected.color, attr)]
    ELSE IF isGrid
    THEN [selected EXCEPT !.grid = toggle(selected.grid, attr)]
    ELSE [selected EXCEPT !.text = toggle(selected.text, attr)]

\* App.tsx: the three selection lists handed to the sidebar
Selections ==
    [color |-> selectedColorAttributes,
     grid |-> selectedGridAttributes,
     text |-> selectedTextAttributes]

\* Math.floor(x * n) for the coordinate x = <<p, w>>
FloorScale(x, n) == FloorDiv(x[1] * n, x[2])

\* a slip that reads panel[cellX][cellY]
getFeatureCellsTransposed(array, x, y) ==
    LET panelHeight == Len(array[1])
        panelWidth == Len(array[1][1])
        cellX == FloorScale(x, panelWidth)
        cellY == FloorScale(y, panelHeight)
    IN  [cellX |-> cellX, cellY |-> cellY,
         threw |-> \E k \in 1 .. Len(array) : cellX + 1 \notin DOMAIN array[k],
         cells |-> [k \in 1 .. Len(array) |->
                      IF cellX + 1 \notin DOMAIN array[k] THEN Undefined
                      ELSE IF cellY + 1 \notin DOMAIN array[k][cellX + 1] THEN Undefined
                      ELSE array[k][cellX + 1][cellY + 1]]]

\* FeatureViewer.tsx: getFeatureCells.  panel[cellY] of a row that does not
\* exist is undefined, and indexing it throws a TypeError; panel[cellY][cellX]
\* of a column that does not exist is undefined.
getFeatureCells(array, x, y) ==
    LET panelHeight == Len(array[1])
        panelWidth == Len(array[1][1])
        cellX == FloorScale(x, panelWidth)
        cellY == FloorScale(y, panelHeight)
    IN  [cellX |-> cellX, cellY |-> cellY,
         threw |-> \E k \in 1 .. Len(array) : cellY + 1 \notin DOMAIN array[k],
         cells |-> [k \in 1 .. Len(array) |->
                      IF cellY + 1 \notin DOMAIN array[k] THEN Undefined
                      ELSE IF cellX + 1 \notin DOMAIN array[k][cellY + 1] THEN Undefined
                      ELSE array[k][cellY + 1][cellX + 1]]]

\* ImageViewer.tsx renders FeatureViewer only with a container and a click
Mounted(position, container) == position # NoPos /\ container # Null

\* FeatureViewer.tsx: the effect on [selectedAttr, position, gridData]; cur is
\* the component's [cellPos, canvas, error, extracted] before it runs
featureEffect(position, attr, grids, cur) ==
    IF position = NoPos \/ attr = Null \/ attr \notin DOMAIN grids
    THEN cur
    ELSE LET got == getFeatureCells(grids[attr], position[1], position[2])
             call == [called |-> TRUE, array |-> grids[attr], x |-> position[1], y |-> position[2],
                      threw |-> got.threw, cells |-> got.cells]
         IN  IF got.threw
             THEN [cur EXCEPT !.error = "TypeError", !.extracted = call]
             ELSE [cellPos |-> <<got.cellX, got.cellY>>,
                   canvas |-> drawFeatures(got.cells, canvasWidth, canvasHeight,
                                           gridSpacing),
                   error |-> cur.error,
                   extracted |-> call]

\* One React commit of ImageViewer and FeatureViewer: position, container,
\* grids and attr are the values being committed; newDom says the portal got
\* a new container (its canvas is a new, empty element); rerun says a
\* dependency of the effect changed.
Commit(position, container, grids, attr, newDom, rerun) ==
    IF ~Mounted(position, container)
    THEN /\ selectedAttr' = Null
         /\ cellPos' = NoPos
         /\ fvCanvas' = Blank
         /\ extracted' = NoCall
         /\ fvError' = fvError
    ELSE LET wasMounted == Mounted(clickPos, popupContainer)
             sel == IF wasMounted THEN attr ELSE Null
             cur == IF wasMounted
                    THEN [cellPos |-> cellPos,
                          canvas |-> IF newDom THEN Blank ELSE fvCanvas,
                          error |-> fvError, extracted |-> extracted]
                    ELSE [cellPos |-> NoPos, canvas |-> Blank,
                          error |-> fvError, extracted |-> NoCall]
             res == IF rerun \/ ~wasMounted
                    THEN featureEffect(position, sel, grids, cur)
                    ELSE cur
         IN  /\ selectedAttr' = sel
             /\ cellPos' = res.cellPos
             /\ fvCanvas' = res.canvas
             /\ extracted' = res.extracted
             /\ fvError' = res.error

\* an uncaught error in an effect unmounts the React tree
Alive == fvError # "TypeError"

InitInspect ==
    /\ numPanels = 0
    /\ panelDim = 0
    /\ canvasWidth = FeatureCanvasWidth
    /\ canvasHeight = FeatureCanvasHeight
    /\ gridSpacing = FeatureGridSpacing
    /\ gvCanvas = Blank
    /\ fvCanvas = Blank
    /\ gv0Canvas = Blank
    /\ InspectorIdle
    /\ RecorderIdle
    /\ ClientIdle

InspectFrame ==
    UNCHANGED <<numPanels, panelDim, canvasWidth, canvasHeight, gridSpacing,
                gvCanvas, gv0Canvas, recVars, clientVars>>

\* App.tsx fetchData: the data of a timestep arrives (setData)
SetData ==
    \E d \in DataInputs :
        /\ Alive
        /\ data' = d
        /\ gridData' = deriveGridData(d, selectedGridAttributes)
        /\ Commit(clickPos, popupContainer,
                  deriveGridData(d, selectedGridAttributes), selectedAttr, FALSE, TRUE)
        /\ UNCHANGED <<selectedGridAttributes, clickPos, popupContainer, popupPolls>>
        /\ InspectFrame

\* Sidebar.tsx toggleAttribute on a GRID attribute
ToggleGridAttribute ==
    \E attr \in GridAttrs :
        LET selected == toggleAttribute(attr, FALSE, TRUE, Selections).grid
        IN  /\ Alive
            /\ selectedGridAttributes' = selected
            /\ gridData' = deriveGridData(data, selected)
            /\ Commit(clickPos, popupContainer, deriveGridData(data, selected),
                      selectedAttr, FALSE, TRUE)
            /\ UNCHANGED <<data, clickPos, popupContainer, popupPolls>>
            /\ InspectFrame

\* ImageViewer.tsx handleClick: setClickPos, then window.open; a blocked
\* popup returns early, otherwise a checkReady interval starts polling
HandleClick ==
    \E click \in Clicks, blocked \in BOOLEAN :
        /\ Alive
        /\ blocked \/ popupPolls < MaxPolls
        /\ clickPos' = click
        /\ popupPolls' = IF blocked THEN popupPolls ELSE popupPolls + 1
        /\ Commit(click, popupContainer, gridData, selectedAttr, FALSE, TRUE)
        /\ UNCHANGED <<data, selectedGridAttributes, gridData, popupContainer>>
        /\ InspectFrame

\* ImageViewer.tsx checkReady: the popup's #feature-root exists
CheckReady ==
    /\ Alive
    /\ popupPolls > 0
    /\ popupPolls' = popupPolls - 1
    /\ popupContainer' = "feature-root"
    /\ Commit(clickPos, "feature-root", gridData, selectedAttr, TRUE, FALSE)
    /\ UNCHANGED <<data, selectedGridAttributes, gridData, clickPos>>
    /\ InspectFrame

\* FeatureViewer.tsx: the select's onChange; only attributes with a grid are options
SelectAttr ==
    \E attr \in DOMAIN gridData :
        /\ Alive
        /\ Mounted(clickPos, popupContainer)
        /\ attr # selectedAttr
        /\ Commit(clickPos, popupContainer, gridData, attr, FALSE, TRUE)
        /\ UNCHANGED <<data, selectedGridAttributes, gridData, clickPos,
                       popupContainer, popupPolls>>
        /\ InspectFrame

\* ImageViewer.tsx: FeatureViewer's onClose
OnClose ==
    /\ Alive
    /\ Mounted(clickPos, popupContainer)
    /\ clickPos' = NoPos
    /\ popupContainer' = Null
    /\ Commit(NoPos, Null, gridData, selectedAttr, FALSE, FALSE)
    /\ UNCHANGED <<data, selectedGridAttributes, gridData, popupPolls>>
    /\ InspectFrame

NextInspect ==
    SetData \/ ToggleGridAttribute \/ HandleClick \/ CheckReady \/ SelectAttr \/ OnClose

SpecInspect == InitInspect /\ [][NextInspect]_vars

(***************************************************************************)
(* The recording session (SchemaRegistry and RecordingSession).  The       *)
(* producer library is not part of the sources; README.md shows its calls  *)
(* (init_attributes, start_recording, add, end_step, end_recording) and    *)
(* the behaviour of each call is the one the specification describes.      *)
(***************************************************************************)
Kinds == {"COLOR", "GRID", "TEXT"}

\* the values a producer adds: one image, one panel stack, two strings
Values ==
    {[kind |-> "COLOR", v |-> "img"], [kind |-> "GRID", v |-> "panels"],
     [kind |-> "TEXT", v |-> "v0"], [kind |-> "TEXT", v |-> "v1"]}

\* the names a producer passes to add: "reward" is in no schema
AddNames == {"obs", "value", "reward"}

\* the (names, kinds) a producer passes to init_attributes: two valid
\* schemas, a repeated name, lists of different length, and no attribute
SchemaInputs ==
    {<<<<"obs", "value">>, <<"GRID", "TEXT">>>>,
     <<<<"obs">>, <<"COLOR">>>>,
     <<<<"obs", "obs">>, <<"GRID", "GRID">>>>,
     <<<<"obs", "value">>, <<"GRID">>>>,
     <<<<>>, <<>>>>}

SchemaNames == {schema[i].name : i \in DOMAIN schema}

KindOf(name) ==
    LET i == CHOOSE k \in DOMAIN schema : schema[k].name = name
    IN  schema[i].kind

\* the record of a call: add records the name and the kind of the value passed
Failed(op, name, kind, error) ==
    [op |-> op, name |-> name, kind |-> kind, error |-> error]

Succeeded(op, name, kind) == Failed(op, name, kind, "none")

\* init(names, kinds): the error it fails with, or "none"
initError(names, kinds) ==
    IF recState \notin {"Unconfigured", "Finalized"} THEN "StateError"
    ELSE IF \/ Len(names) # Len(kinds)
            \/ Len(names) = 0
            \/ \E i, j \in DOMAIN names : i # j /\ names[i] = names[j]
         THEN "ConfigError"
         ELSE "none"

\* a slip that lets start_recording restart a session in any configured state
startErrorAnyState == IF recState = "Unconfigured" THEN "StateError" ELSE "none"

\* start(): the error it fails with, or "none"
startError == IF recState # "Configured" THEN "StateError" ELSE "none"

\* a slip that lets a second add of a name replace the first
addErrorNoDuplicateCheck(name, value) ==
    IF recState # "Recording" THEN "StateError"
    ELSE IF name \notin SchemaNames THEN "SchemaViolationError:UnknownAttribute"
    ELSE IF value.kind # KindOf(name) THEN "SchemaViolationError:TypeMismatch"
    ELSE "none"

\* add(name, value): the error it fails with, or "none"
addError(name, value) ==
    IF recState # "Recording" THEN "StateError"
    ELSE IF name \notin SchemaNames THEN "SchemaViolationError:UnknownAttribute"
    ELSE IF value.kind # KindOf(name) THEN "SchemaViolationError:TypeMismatch"
    ELSE IF name \in DOMAIN buffer THEN "SchemaViolationError:DuplicateAttribute"
    ELSE "none"

\* a slip that closes a step whatever it holds
endStepErrorNoCompletenessCheck ==
    IF recState # "Recording" THEN "StateError" ELSE "none"

\* end_step(): the error it fails with, or "none"
endStepError ==
    IF recState # "Recording" THEN "StateError"
    ELSE IF SchemaNames \ DOMAIN buffer # {} THEN "SchemaViolationError:MissingAttribute"
    ELSE "none"

\* a slip that lets finalize drop a pending step
finalizeErrorNoPendingCheck ==
    IF recState # "Recording" THEN "StateError" ELSE "none"

\* finalize(destination): the error it fails with, or "none"
finalizeError ==
    IF recState # "Recording" THEN "StateError"
    ELSE IF DOMAIN buffer # {} THEN "StateError:PendingStep"
    ELSE "none"

\* a slip that writes the steps newest first
writeNewestFirst(log, sch) ==
    [written |-> TRUE,
     schema |-> sch,
     num_timesteps |-> Len(log),
     values |-> [name \in {sch[i].name : i \in DOMAIN sch} |->
                    [t \in 1 .. Len(log) |-> log[Len(log) + 1 - t][name]]]]

\* write(episodeLog, schema, destination): per attribute, its values in step order
write(log, sch) ==
    [written |-> TRUE,
     schema |-> sch,
     num_timesteps |-> Len(log),
     values |-> [name \in {sch[i].name : i \in DOMAIN sch} |->
                    [t \in 1 .. Len(log) |-> log[t][name]]]]

\* read(handle, attr, t), timesteps counted from 0
read(handle, attr, t) ==
    IF attr \notin DOMAIN handle.values
    THEN [ok |-> FALSE, error |-> "UnknownAttributeError"]
    ELSE IF t < 0 \/ t >= handle.num_timesteps
         THEN [ok |-> FALSE, error |-> "RangeError"]
         ELSE [ok |-> TRUE, value |-> handle.values[attr][t + 1]]

InitRec ==
    /\ numPanels = 0
    /\ panelDim = 0
    /\ canvasWidth = 0
    /\ canvasHeight = 0
    /\ gridSpacing = 0
    /\ gvCanvas = Blank
    /\ fvCanvas = Blank
    /\ gv0Canvas = Blank
    /\ InspectorIdle
    /\ RecorderIdle
    /\ ClientIdle

RecFrame == UNCHANGED <<layoutVars, inspectVars, clientVars>>

\* rlviz.init_attributes(names, kinds)
init_attributes ==
    \E input \in SchemaInputs :
        LET names == input[1]
            kinds == input[2]
            error == initError(names, kinds)
        IN  /\ IF error = "none"
               THEN /\ recState' = "Configured"
                    /\ schema' = [i \in DOMAIN names |->
                                    [name |-> names[i], kind |-> kinds[i]]]
                    /\ lastCall' = Succeeded("init", "", "")
               ELSE /\ lastCall' = Failed("init", "", "", error)
                    /\ UNCHANGED <<recState, schema>>
            /\ UNCHANGED <<buffer, episodeLog, store, stepsEnded, addedValues>>
            /\ RecFrame

\* rlviz.start_recording()
start_recording ==
    /\ IF startError = "none"
       THEN /\ recState' = "Recording"
            /\ episodeLog' = <<>>
            /\ buffer' = <<>>
            /\ stepsEnded' = 0
            /\ addedValues' = <<>>
            /\ lastCall' = Succeeded("start", "", "")
       ELSE /\ lastCall' = Failed("start", "", "", startError)
            /\ UNCHANGED <<recState, episodeLog, buffer, stepsEnded, addedValues>>
    /\ UNCHANGED <<schema, store>>
    /\ RecFrame

\* rlviz.add(name, value)
add ==
    \E name \in AddNames, value \in Values :
        LET error == addError(name, value)
        IN  /\ IF error = "none"
               THEN /\ buffer' = (name :> value) @@ buffer
                    /\ addedValues' = (<<stepsEnded, name>> :> value) @@ addedValues
                    /\ lastCall' = Succeeded("add", name, value.kind)
               ELSE /\ lastCall' = Failed("add", name, value.kind, error)
                    /\ UNCHANGED <<buffer, addedValues>>
            /\ UNCHANGED <<recState, schema, episodeLog, store, stepsEnded>>
            /\ RecFrame

\* rlviz.end_step()
end_step ==
    /\ endStepError = "none" => Len(episodeLog) < MaxSteps
    /\ IF endStepError = "none"
       THEN /\ episodeLog' = Append(episodeLog, buffer)
            /\ buffer' = <<>>
            /\ stepsEnded' = stepsEnded + 1
            /\ lastCall' = Succeeded("end_step", "", "")
       ELSE /\ lastCall' = Failed("end_step", "", "", endStepError)
            /\ UNCHANGED <<episodeLog, buffer, stepsEnded>>
    /\ UNCHANGED <<recState, schema, store, addedValues>>
    /\ RecFrame

\* rlviz.end_recording(destination): finalize
end_recording ==
    /\ IF finalizeError = "none"
       THEN /\ store' = write(episodeLog, schema)
            /\ recState' = "Finalized"
            /\ episodeLog' = <<>>
            /\ lastCall' = Succeeded("finalize", "", "")
       ELSE /\ lastCall' = Failed("finalize", "", "", finalizeError)
            /\ UNCHANGED <<store, recState, episodeLog>>
    /\ UNCHANGED <<schema, buffer, stepsEnded, addedValues>>
    /\ RecFrame

NextRec == init_attributes \/ start_recording \/ add \/ end_step \/ end_recording

SpecRec == InitRec /\ [][NextRec]_vars

(***************************************************************************)
(* The viewing client: App.tsx with FileUpload (src/unnamed/part_002),     *)
(* Sidebar.tsx and TimestepSlider (GridViewer.tsx lines 193-264).  A       *)
(* request is in flight from the fetch call until its answer is handled;   *)
(* answers come in any order.  The server is not part of the sources: a    *)
(* store is what /attributes, /dtypes, /num_timesteps and /data answer     *)
(* from, as the specification describes the QueryService.  The inspector   *)
(* popup stays closed here.                                                *)
(***************************************************************************)
MaxStep == 1        \* the largest timestep the slider and the keys are taken to
MaxInFlight == 2    \* GET /data requests in flight when the user moves on
MaxUploads == 2     \* POST /upload_file requests in flight

\* attribute names are spelled out, so that startsWith can look at them
AttrObs == <<"o", "b", "s">>
AttrAux == <<"_", "a", "u", "x">>
AttrLat == <<"l", "a", "t">>
AttrVal == <<"v", "a", "l">>
AttrAct == <<"a", "c", "t">>
AttrTmp == <<"_", "t">>
AttrMap == <<"m", "_", "p">>

\* the stores a user can upload: "a.h5" with two timesteps and attributes of
\* the three kinds, "b.h5" with one timestep and GRID attributes only; each
\* lists a name with the reserved prefix
Stores ==
    ("a.h5" :>
        [attributes |-> <<AttrObs, AttrAux, AttrLat, AttrVal, AttrAct>>,
         dtypes |-> (AttrObs :> "RlvizType.COLOR" @@ AttrAux :> "RlvizType.GRID" @@
                     AttrLat :> "RlvizType.GRID" @@ AttrVal :> "RlvizType.TEXT" @@
                     AttrAct :> "RlvizType.TEXT"),
         num_timesteps |-> 2]) @@
    ("b.h5" :>
        [attributes |-> <<AttrTmp, AttrMap>>,
         dtypes |-> (AttrTmp :> "RlvizType.GRID" @@ AttrMap :> "RlvizType.GRID"),
         num_timesteps |-> 1])

\* how a request ends: an OK response, a non-OK response, or fetch rejecting
Outcomes == {"ok", "not-ok", "network-error"}

\* get_timestep(t): the encoded value of every attribute at timestep t; a
\* GRID value is one 1 x 1 panel, and every value tells store and timestep
Payload(id, t) ==
    [name \in {Stores[id].attributes[i] : i \in DOMAIN Stores[id].attributes} |->
        IF Stores[id].dtypes[name] = "RlvizType.GRID"
        THEN <<<<<<t>>>>>>
        ELSE <<id, t>>]

\* the server answers OK only from a loaded store
ServesQueries == serverStore # Null

\* get_timestep fails with RangeError outside [0, num_timesteps)
ServesTimestep(t) ==
    /\ ServesQueries
    /\ 0 <= t
    /\ t < Stores[serverStore].num_timesteps

\* attr.startsWith(prefix)
startsWith(attr, prefix) ==
    /\ Len(attr) >= Len(prefix)
    /\ SubSeq(attr, 1, Len(prefix)) = prefix

\* a slip that offers every listed name
visibleAttributesAll(attributes) == attributes

\* Sidebar.tsx: attrData.attributes.filter(attr => !attr.startsWith("_"))
visibleAttributes(attributes) ==
    SelectSeq(attributes, LAMBDA attr : ~startsWith(attr, <<"_">>))

\* Sidebar.tsx: attributes.filter(attr => dtypes[attr] === kind)
ofDtype(attributes, dtypes, kind) ==
    SelectSeq(attributes, LAMBDA attr : attr \in DOMAIN dtypes /\ dtypes[attr] = kind)

\* Sidebar.tsx render: "Loading..." while there is neither a COLOR nor a
\* TEXT name, the three groups of checkboxes otherwise
Offered ==
    IF ~fileUploaded \/ (colorAttributes = <<>> /\ textAttributes = <<>>)
    THEN {}
    ELSE Range(colorAttributes) \cup Range(gridAttributes) \cup Range(textAttributes)

\* a slip that drops the displayed data when a request fails
fetchDataResultClears(outcome, body, cur) == IF outcome = "ok" THEN body ELSE <<>>

\* App.tsx fetchData: setData(data.data) on an OK response; the catch block
\* only logs, so data keeps its value
fetchDataResult(outcome, body, cur) == IF outcome = "ok" THEN body ELSE cur

\* what the page shows as a message: FileUpload's, while it is rendered
VisibleMessage == IF fileUploaded THEN "" ELSE message

\* a /data request for timestep t, issued by the fetchData effect
DataRequest(t, up) == [t |-> t, uploaded |-> up]

InitClient ==
    /\ numPanels = 0
    /\ panelDim = 0
    /\ canvasWidth = 0
    /\ canvasHeight = 0
    /\ gridSpacing = 0
    /\ gvCanvas = Blank
    /\ fvCanvas = Blank
    /\ gv0Canvas = Blank
    /\ InspectorIdle
    /\ RecorderIdle
    /\ ClientIdle

ClientFrame ==
    UNCHANGED <<layoutVars, recVars, clickPos, popupContainer, popupPolls,
                selectedAttr, cellPos, fvError, extracted>>

\* App.tsx: the first commit; the fetchData effect runs once on mount
Mount ==
    /\ ~mounted
    /\ mounted' = TRUE
    /\ dataInFlight' = dataInFlight \cup {DataRequest(timestep, fileUploaded)}
    /\ UNCHANGED <<file, message, uploads, fileUploaded, serverStore,
                   attrFetch,
                   colorAttributes, textAttributes, gridAttributes, numFetch,
                   numTimesteps, timestep, selectedColorAttributes,
                   selectedTextAttributes, lastQuery, dataFailed,
                   data, selectedGridAttributes, gridData>>
    /\ ClientFrame

\* FileUpload handleFileChange
HandleFileChange ==
    \E f \in DOMAIN Stores :
        /\ mounted
        /\ ~fileUploaded
        /\ file' = f
        /\ message' = ""
        /\ UNCHANGED <<mounted, uploads, fileUploaded, serverStore,
                       attrFetch,
                       colorAttributes, textAttributes, gridAttributes, numFetch,
                       numTimesteps, timestep, selectedColorAttributes,
                       selectedTextAttributes, dataInFlight, lastQuery, dataFailed,
                       data, selectedGridAttributes, gridData>>
        /\ ClientFrame

\* FileUpload handleUpload, up to the fetch call
HandleUpload ==
    /\ mounted
    /\ ~fileUploaded
    /\ file # Null
    /\ Cardinality(uploads) < MaxUploads
    /\ uploads' = uploads \cup {file}
    /\ UNCHANGED <<mounted, file, message, fileUploaded, serverStore,
                   attrFetch,
                   colorAttributes, textAttributes, gridAttributes, numFetch,
                   numTimesteps, timestep, selectedColorAttributes,
                   selectedTextAttributes, dataInFlight, lastQuery, dataFailed,
                   data, selectedGridAttributes, gridData>>
    /\ ClientFrame

\* a slip that notifies the parent whatever the answer
uploadNotifiesAlways(outcome) == TRUE

\* FileUpload handleUpload: onUpload() is called under if (response.ok)
uploadNotifies(outcome) == outcome = "ok"

\* FileUpload handleUpload: the message set for each way the request ends
uploadMessage(outcome) ==
    IF outcome = "ok" THEN "File uploaded successfully!"
    ELSE IF outcome = "not-ok" THEN "File upload failed."
    ELSE "Error uploading file."

\* FileUpload handleUpload, from the answer on.  An OK answer means the
\* server has replaced its store.  FileUpload keeps its message while it is
\* rendered; onUpload sets fileUploaded, and on the commit that first shows
\* the viewer Sidebar and TimestepSlider mount (their effects fetch) and
\* App's fetchData effect runs again.
UploadResponse ==
    \E f \in uploads, outcome \in Outcomes :
        /\ uploads' = uploads \ {f}
        /\ serverStore' = IF outcome = "ok" THEN f ELSE serverStore
        /\ message' = IF fileUploaded THEN message ELSE uploadMessage(outcome)
        /\ IF uploadNotifies(outcome)
           THEN /\ fileUploaded' = TRUE
                /\ IF fileUploaded
                   THEN UNCHANGED <<attrFetch, numFetch, dataInFlight>>
                   ELSE /\ attrFetch' = [NoFetch EXCEPT !.pc = "attributes"]
                        /\ numFetch' = "pending"
                        /\ dataInFlight' =
                              dataInFlight \cup {DataRequest(timestep, TRUE)}
           ELSE UNCHANGED <<fileUploaded, attrFetch, numFetch, dataInFlight>>
        /\ UNCHANGED <<mounted, file, colorAttributes, textAttributes,
                       gridAttributes, numTimesteps, timestep,
                       selectedColorAttributes, selectedTextAttributes,
                       lastQuery, dataFailed,
                       data, selectedGridAttributes, gridData>>
        /\ ClientFrame

\* Sidebar.tsx fetchAttributes: the answer to /attributes, then fetch /dtypes
AttributesResponse ==
    \E outcome \in Outcomes :
        /\ attrFetch.pc = "attributes"
        /\ outcome = "ok" => ServesQueries
        /\ attrFetch' =
              IF outcome = "ok"
              THEN [pc |-> "dtypes",
                    listed |-> Stores[serverStore].attributes,
                    attributes |-> visibleAttributes(Stores[serverStore].attributes),
                    dtypes |-> <<>>]
              ELSE [attrFetch EXCEPT !.pc = "failed"]
        /\ lastQuery' = [kind |-> "attributes", outcome |-> outcome]
        /\ UNCHANGED <<mounted, file, message, uploads, fileUploaded, serverStore,
                       colorAttributes, textAttributes, gridAttributes, numFetch,
                       numTimesteps, timestep, selectedColorAttributes,
                       selectedTextAttributes, dataInFlight, dataFailed,
                       data, selectedGridAttributes, gridData>>
        /\ ClientFrame

\* Sidebar.tsx fetchAttributes: the answer to /dtypes, then the three setters
DtypesResponse ==
    \E outcome \in Outcomes :
        /\ attrFetch.pc = "dtypes"
        /\ outcome = "ok" => ServesQueries
        /\ IF outcome = "ok"
           THEN LET dtypes == Stores[serverStore].dtypes
                IN  /\ colorAttributes' =
                          ofDtype(attrFetch.attributes, dtypes, "RlvizType.COLOR")
                    /\ textAttributes' =
                          ofDtype(attrFetch.attributes, dtypes, "RlvizType.TEXT")
                    /\ gridAttributes' =
                          ofDtype(attrFetch.attributes, dtypes, "RlvizType.GRID")
                    /\ attrFetch' = [attrFetch EXCEPT !.pc = "done",
                                                      !.dtypes = dtypes]
           ELSE /\ attrFetch' = [attrFetch EXCEPT !.pc = "failed"]
                /\ UNCHANGED <<colorAttributes, textAttributes, gridAttributes>>
        /\ lastQuery' = [kind |-> "dtypes", outcome |-> outcome]
        /\ UNCHANGED <<mounted, file, message, uploads, fileUploaded, serverStore,
                       numFetch, numTimesteps, timestep, selectedColorAttributes,
                       selectedTextAttributes, dataInFlight, dataFailed,
                       data, selectedGridAttributes, gridData>>
        /\ ClientFrame

\* TimestepSlider fetchNumTimesteps: the answer to /num_timesteps
NumTimestepsResponse ==
    \E outcome \in Outcomes :
        /\ numFetch = "pending"
        /\ outcome = "ok" => ServesQueries
        /\ numFetch' = IF outcome = "ok" THEN "done" ELSE "failed"
        /\ numTimesteps' = IF outcome = "ok"
                           THEN Stores[serverStore].num_timesteps
                           ELSE numTimesteps
        /\ lastQuery' = [kind |-> "num_timesteps", outcome |-> outcome]
        /\ UNCHANGED <<mounted, file, message, uploads, fileUploaded, serverStore,
                       attrFetch, colorAttributes, textAttributes, gridAttributes,
                       timestep, selectedColorAttributes, selectedTextAttributes,
                       dataInFlight, dataFailed,
                       data, selectedGridAttributes, gridData>>
        /\ ClientFrame

\* App.tsx: setTimestep(t) and, when the value changed, the fetchData effect
SetTimestep(t) ==
    /\ timestep' = t
    /\ dataInFlight' = IF t = timestep THEN dataInFlight
                       ELSE dataInFlight \cup {DataRequest(t, fileUploaded)}
    /\ UNCHANGED <<mounted, file, message, uploads, fileUploaded, serverStore,
                   attrFetch, colorAttributes, textAttributes, gridAttributes,
                   numFetch, numTimesteps, selectedColorAttributes,
                   selectedTextAttributes, lastQuery, dataFailed,
                   data, selectedGridAttributes, gridData>>
    /\ ClientFrame

\* TimestepSlider: the range input, min 0 and max numTimesteps - 1
SliderChange ==
    \E v \in 0 .. Min(numTimesteps - 1, MaxStep) :
        /\ fileUploaded
        /\ v # timestep
        /\ Cardinality(dataInFlight) < MaxInFlight
        /\ SetTimestep(v)

\* TimestepSlider handleKeyDown
KeyDown ==
    \E key \in {"ArrowLeft", "ArrowRight"} :
        LET t == IF key = "ArrowLeft"
                 THEN Max(0, timestep - 1)
                 ELSE Min(numTimesteps - 1, timestep + 1)
        IN  /\ fileUploaded
            /\ t <= MaxStep
            /\ Cardinality(dataInFlight) < MaxInFlight
            /\ SetTimestep(t)

\* Sidebar.tsx toggleAttribute, on a checkbox that is offered, with the flags
\* of the group the checkbox is rendered in; App's gridData effect follows
\* the selection
ToggleAttribute ==
    \E attr \in Offered :
        LET isColor == attr \in Range(colorAttributes)
            isGrid == ~isColor /\ attr \in Range(gridAttributes)
            selected == toggleAttribute(attr, isColor, isGrid, Selections)
        IN  /\ selectedColorAttributes' = selected.color
            /\ selectedGridAttributes' = selected.grid
            /\ selectedTextAttributes' = selected.text
            /\ gridData' = deriveGridData(data, selected.grid)
            /\ UNCHANGED <<mounted, file, message, uploads, fileUploaded,
                           serverStore, attrFetch, colorAttributes, textAttributes,
                           gridAttributes, numFetch, numTimesteps, timestep,
                           dataInFlight, lastQuery, dataFailed, data>>
            /\ ClientFrame

\* App.tsx fetchData: the answer to /data?timestep=t, and the gridData effect
DataResponse ==
    \E r \in dataInFlight, outcome \in Outcomes :
        /\ outcome = "ok" => ServesTimestep(r.t)
        /\ dataInFlight' = dataInFlight \ {r}
        /\ LET body == IF outcome = "ok" THEN Payload(serverStore, r.t) ELSE <<>>
               d == fetchDataResult(outcome, body, data)
           IN  /\ data' = d
               /\ gridData' = deriveGridData(d, selectedGridAttributes)
        /\ lastQuery' = [kind |-> "data", outcome |-> outcome]
        /\ dataFailed' = (dataFailed \/ outcome # "ok")
        /\ UNCHANGED <<mounted, file, message, uploads, fileUploaded, serverStore,
                       attrFetch, colorAttributes, textAttributes, gridAttributes,
                       numFetch, numTimesteps, timestep, selectedColorAttributes,
                       selectedTextAttributes, selectedGridAttributes>>
        /\ ClientFrame

NextClient ==
    \/ Mount
    \/ HandleFileChange
    \/ HandleUpload
    \/ UploadResponse
    \/ AttributesResponse
    \/ DtypesResponse
    \/ NumTimestepsResponse
    \/ SliderChange
    \/ KeyDown
    \/ ToggleAttribute
    \/ DataResponse

SpecClient == InitClient /\ [][NextClient]_vars

(***************************************************************************)
(* Layout claims, checked under SpecLayout.                                *)
(***************************************************************************)
PanelIds(canvas) == DOMAIN canvas.panels

\* C1: for every D >= 1 the computed grid has cols * rows >= D, in the
\* panel-stack renderer and in the cross-section renderer, so each of the D
\* panels is drawn in a cell of the grid (row below rows, column below cols).
C1_GridHoldsEveryPanel ==
    /\ gvCanvas.drawn =>
        /\ gvCanvas.cols * gvCanvas.rows >= numPanels
        /\ PanelIds(gvCanvas) = 0 .. numPanels - 1
        /\ \A i \in PanelIds(gvCanvas) :
            /\ gvCanvas.panels[i].row < gvCanvas.rows
            /\ gvCanvas.panels[i].col < gvCanvas.cols
    /\ fvCanvas.drawn =>
        /\ fvCanvas.cols * fvCanvas.rows >= numPanels
        /\ PanelIds(fvCanvas) = 0 .. numPanels - 1
        /\ \A i \in PanelIds(fvCanvas) :
            /\ fvCanvas.panels[i].row < fvCanvas.rows
            /\ fvCanvas.panels[i].col < fvCanvas.cols

C1_Witness ==
    /\ gvCanvas.drawn
    /\ fvCanvas.drawn
    /\ numPanels = 7
    /\ gvCanvas.cols * gvCanvas.rows > numPanels

\* the (cols, rows) the layout is documented to give for some panel counts
LayoutExamples ==
    (1 :> <<1, 1>>) @@ (4 :> <<2, 2>>) @@ (5 :> <<2, 3>>) @@ (7 :> <<2, 4>>)
        @@ (10 :> <<3, 4>>)

ReferenceLayout(D) == <<FloorSqrt(D), CeilDiv(D, FloorSqrt(D))>>

\* C2: (cols, rows) depends on D alone: whatever the box, the spacing and the
\* panel size, both renderers give floor(sqrt(D)) columns and
\* ceil(D / floor(sqrt(D))) rows (the loop finds nothing to adjust), which is
\* (1,1), (2,2), (2,3), (2,4), (3,4) for D = 1, 4, 5, 7, 10.
C2_LayoutIsReference ==
    /\ gvCanvas.drawn =>
        /\ <<gvCanvas.cols, gvCanvas.rows>> = ReferenceLayout(numPanels)
        /\ numPanels \in DOMAIN LayoutExamples =>
            <<gvCanvas.cols, gvCanvas.rows>> = LayoutExamples[numPanels]
    /\ fvCanvas.drawn =>
        /\ <<fvCanvas.cols, fvCanvas.rows>> = ReferenceLayout(numPanels)
        /\ numPanels \in DOMAIN LayoutExamples =>
            <<fvCanvas.cols, fvCanvas.rows>> = LayoutExamples[numPanels]

C2_Witness ==
    /\ gvCanvas.drawn
    /\ fvCanvas.drawn
    /\ numPanels = 10
    /\ <<fvCanvas.cols, fvCanvas.rows>> = <<3, 4>>
    /\ canvasWidth # canvasHeight

FitsBox(canvas) ==
    /\ canvas.cols * canvas.cellSize + (canvas.cols - 1) * gridSpacing <= canvas.width
    /\ canvas.rows * canvas.cellSize + (canvas.rows - 1) * gridSpacing <= canvas.height

CellSizeIsMin(canvas) ==
    canvas.cellSize =
        Min((canvas.width - (canvas.cols - 1) * gridSpacing) \div canvas.cols,
            (canvas.height - (canvas.rows - 1) * gridSpacing) \div canvas.rows)

SquarePanels(canvas) ==
    \A i \in PanelIds(canvas) :
        /\ canvas.panels[i].box.w = canvas.cellSize
        /\ canvas.panels[i].box.h = canvas.cellSize

\* C3: for D >= 1, an integer box W x H and spacing >= 0, cellSize is the
\* smaller of the two floored per-axis sizes, the tiling fits the box on both
\* axes, and every panel is drawn as a square of side cellSize.
C3_CellSizeFits ==
    /\ gvCanvas.drawn =>
        /\ <<gvCanvas.width, gvCanvas.height>> = <<canvasWidth, canvasHeight>>
        /\ CellSizeIsMin(gvCanvas) /\ FitsBox(gvCanvas) /\ SquarePanels(gvCanvas)
    /\ fvCanvas.drawn =>
        /\ <<fvCanvas.width, fvCanvas.height>> = <<canvasWidth, canvasHeight>>
        /\ CellSizeIsMin(fvCanvas) /\ FitsBox(fvCanvas) /\ SquarePanels(fvCanvas)

C3_Witness ==
    /\ gvCanvas.drawn
    /\ fvCanvas.drawn
    /\ numPanels = 5
    /\ gridSpacing > 0
    /\ canvasWidth = canvasHeight
    /\ gvCanvas.cellSize > 1
    /\ panelDim > 1

\* the same statement for the superseded GridViewer kept in FeatureViewer.tsx
C3_EarlierRevisionFits ==
    gv0Canvas.drawn => FitsBox(gv0Canvas) /\ SquarePanels(gv0Canvas)

Disjoint(a, b) ==
    \/ a.x + a.w <= b.x
    \/ b.x + b.w <= a.x
    \/ a.y + a.h <= b.y
    \/ b.y + b.h <= a.y

RowMajor(canvas) ==
    \A i \in PanelIds(canvas) :
        /\ canvas.panels[i].row = i \div canvas.cols
        /\ canvas.panels[i].col = i % canvas.cols
        /\ canvas.panels[i].box.x = canvas.panels[i].col * (canvas.cellSize + gridSpacing)
        /\ canvas.panels[i].box.y = canvas.panels[i].row * (canvas.cellSize + gridSpacing)

PanelsDisjointInBox(canvas) ==
    /\ \A i, k \in PanelIds(canvas) :
        i # k => Disjoint(canvas.panels[i].box, canvas.panels[k].box)
    /\ \A i \in PanelIds(canvas) :
        LET b == canvas.panels[i].box
        IN  /\ 0 <= b.x /\ b.x + b.w <= canvas.width
            /\ 0 <= b.y /\ b.y + b.h <= canvas.height

\* C4: panel i is placed row-major (row = floor(i / cols), col = i mod cols)
\* with origin (col * (cellSize + spacing), row * (cellSize + spacing)); when
\* cellSize > 0 any two distinct panels cover disjoint squares and every
\* panel lies inside the W x H box.
C4_RowMajorDisjoint ==
    /\ gvCanvas.drawn =>
        /\ RowMajor(gvCanvas)
        /\ gvCanvas.cellSize > 0 => PanelsDisjointInBox(gvCanvas)
    /\ fvCanvas.drawn =>
        /\ RowMajor(fvCanvas)
        /\ fvCanvas.cellSize > 0 => PanelsDisjointInBox(fvCanvas)

C4_Witness ==
    /\ gvCanvas.drawn
    /\ fvCanvas.drawn
    /\ numPanels = 7
    /\ gvCanvas.cellSize > 0
    /\ fvCanvas.cellSize > 0
    /\ gridSpacing = 0

\* the same statement for the superseded GridViewer kept in FeatureViewer.tsx
C4_EarlierRevisionDisjoint ==
    (gv0Canvas.drawn /\ gv0Canvas.cellSize > 0) => PanelsDisjointInBox(gv0Canvas)

(***************************************************************************)
(* Inspector claims, checked under SpecInspect.                            *)
(***************************************************************************)
\* the panel size S of the array of the last getFeatureCells call
ExtractedDim == Len(extracted.array[1])

Below1(x) == x[1] < x[2]

ClampedCell(x, S) == Min(FloorScale(x, S), S - 1)

\* C5: for every click with 0 <= x, y <= 1 the inspected cell is
\* (floor(x*S), floor(y*S)) clamped into [0, S-1]: a coordinate of 1.0 maps
\* to S-1, no panel is indexed outside its rows or columns, and with S = 10
\* the click (0.5, 0.5) gives (5, 5) and (0.99, 0.0) gives (9, 0).
C5_CellClamped ==
    extracted.called =>
        /\ ~extracted.threw
        /\ \A k \in DOMAIN extracted.cells : extracted.cells[k] # Undefined
        /\ cellPos = <<ClampedCell(extracted.x, ExtractedDim),
                       ClampedCell(extracted.y, ExtractedDim)>>
        /\ (ExtractedDim = 10 /\ extracted.x = <<1, 2>> /\ extracted.y = <<1, 2>>)
            => cellPos = <<5, 5>>
        /\ (ExtractedDim = 10 /\ extracted.x = <<99, 100>> /\ extracted.y = <<0, 1>>)
            => cellPos = <<9, 0>>

\* the part of C5 the code does satisfy: clicks strictly inside the image
C5_InteriorCell ==
    (extracted.called /\ Below1(extracted.x) /\ Below1(extracted.y)) =>
        /\ ~extracted.threw
        /\ \A k \in DOMAIN extracted.cells : extracted.cells[k] # Undefined
        /\ cellPos = <<FloorScale(extracted.x, ExtractedDim),
                       FloorScale(extracted.y, ExtractedDim)>>
        /\ cellPos[1] \in 0 .. ExtractedDim - 1
        /\ cellPos[2] \in 0 .. ExtractedDim - 1
        /\ (ExtractedDim = 10 /\ extracted.x = <<1, 2>> /\ extracted.y = <<1, 2>>)
            => cellPos = <<5, 5>>
        /\ (ExtractedDim = 10 /\ extracted.x = <<99, 100>> /\ extracted.y = <<0, 1>>)
            => cellPos = <<9, 0>>

C5_InteriorWitness ==
    /\ extracted.called
    /\ ExtractedDim = 10
    /\ cellPos = <<9, 0>>

\* C6: for a grid attribute with D >= 1 panels and an in-range cell, the
\* extracted cross-section has length D and its k-th entry is
\* panel_k[cellY][cellX] (row first), in panel order; that is what is drawn.
C6_CrossSection ==
    (/\ extracted.called
     /\ ~extracted.threw
     /\ cellPos[1] \in 0 .. ExtractedDim - 1
     /\ cellPos[2] \in 0 .. ExtractedDim - 1) =>
        /\ Len(extracted.cells) = Len(extracted.array)
        /\ Len(extracted.cells) >= 1
        /\ \A k \in 1 .. Len(extracted.array) :
            extracted.cells[k] = extracted.array[k][cellPos[2] + 1][cellPos[1] + 1]
        /\ fvCanvas.drawn =>
            /\ DOMAIN fvCanvas.panels = 0 .. Len(extracted.array) - 1
            /\ \A idx \in DOMAIN fvCanvas.panels :
                fvCanvas.panels[idx].value = extracted.cells[idx + 1]

C6_Witness ==
    /\ extracted.called
    /\ ~extracted.threw
    /\ Len(extracted.array) = 2
    /\ cellPos = <<0, 1>>
    /\ fvCanvas.drawn
    /\ fvCanvas.panels[1].value = extracted.array[2][2][1]

\* the chosen attribute has no panels, or no data, in the current timestep
NoDataFor(attr) == attr \notin DOMAIN data \/ Len(data[attr]) = 0

\* C7: when the chosen grid attribute has D = 0 panels or no data for the
\* current timestep, the inspector reports NoDataError and its canvas shows
\* nothing (no cross-section of an earlier attribute or timestep stays drawn).
C7_NoDataReported ==
    (/\ Mounted(clickPos, popupContainer)
     /\ selectedAttr # Null
     /\ NoDataFor(selectedAttr)) =>
        /\ fvError = "NoDataError"
        /\ fvCanvas = Blank

C10_FinalizeNeedsClosedStep ==
    [][lastCall'.op = "finalize" =>
        IF recState = "Recording" /\ DOMAIN buffer = {}
        THEN /\ lastCall'.error = "none"
             /\ store' = write(episodeLog, schema)
             /\ store'.num_timesteps = Len(episodeLog)
             /\ recState' = "Finalized"
             /\ episodeLog' = <<>>
        ELSE /\ lastCall'.error # "none"
             /\ recState = "Recording" => lastCall'.error = "StateError:PendingStep"
             /\ UNCHANGED <<store, episodeLog, buffer, recState, schema>>]_vars

C10_Witness ==
    /\ store.written
    /\ store.num_timesteps = 1
    /\ recState = "Recording"
    /\ Len(episodeLog) = 1
    /\ DOMAIN buffer # {}
    /\ lastCall = Failed("finalize", "", "", "StateError:PendingStep")

\* the moves of the session: Unconfigured -> Configured -> Recording ->
\* Finalized -> Configured
SessionMoves ==
    {<<"Unconfigured", "Configured">>, <<"Configured", "Recording">>,
     <<"Recording", "Finalized">>, <<"Finalized", "Configured">>}

C12_StoreHoldsWhatWasAdded ==
    recState = "Finalized" =>
        /\ store.written
        /\ store.num_timesteps = stepsEnded
        /\ DOMAIN store.values = SchemaNames
        /\ \A a \in SchemaNames :
            /\ Len(store.values[a]) = stepsEnded
            /\ \A t \in 0 .. stepsEnded - 1 :
                read(store, a, t) = [ok |-> TRUE, value |-> addedValues[<<t, a>>]]
        /\ (/\ stepsEnded = 3
            /\ "value" \in SchemaNames
            /\ addedValues[<<1, "value">>] = [kind |-> "TEXT", v |-> "v1"])
            => read(store, "value", 1).value.v = "v1"

C12_Witness ==
    /\ recState = "Finalized"
    /\ store.num_timesteps = 3
    /\ SchemaNames = {"obs", "value"}
    /\ read(store, "value", 0).value.v = "v0"
    /\ read(store, "value", 1).value.v = "v1"
    /\ read(store, "value", 2).value.v = "v0"

(***************************************************************************)
(* The cells of one panel, checked under SpecLayout.                       *)
(***************************************************************************)
\* how far cell a reaches over the origin of its right neighbour b
\* (negative: a gap), and the same for the neighbour below
OverlapAcross(a, b) == a.x + a.w - b.x

OverlapDown(a, b) == a.y + a.h - b.y

\* no gap and at most one pixel of overlap between the neighbours of a panel
CellsAbut(cells, c) ==
    /\ \A i \in 0 .. c - 1, j \in 0 .. c - 2 :
        OverlapAcross(cells[<<i, j>>], cells[<<i, j + 1>>]) \in {0, 1}
    /\ \A i \in 0 .. c - 2, j \in 0 .. c - 1 :
        OverlapDown(cells[<<i, j>>], cells[<<i + 1, j>>]) \in {0, 1}

\* C17: a panel of integer width w >= 1 at an integer origin, drawn as an
\* S x S matrix with cell size w/S, origin floored and extent ceiled, leaves
\* no gap between horizontally or vertically adjacent cells and overlaps
\* them by at most one pixel; also in the superseded drawPanel.
C17_CellsAbut ==
    /\ (gvCanvas.drawn /\ gvCanvas.cellSize >= 1) =>
        \A k \in PanelIds(gvCanvas) : CellsAbut(gvCanvas.panels[k].cells, panelDim)
    /\ (gv0Canvas.drawn /\ gv0Canvas.cellSize >= 1) =>
        \A k \in PanelIds(gv0Canvas) : CellsAbut(gv0Canvas.panels[k].cells, panelDim)

\* a 5 pixel panel of 3 x 3 cells: origins 0, 1, 3 and extent 2, so the
\* first two cells overlap by one pixel and the last two abut
C17_Witness ==
    /\ gvCanvas.drawn
    /\ gvCanvas.cellSize = 5
    /\ panelDim = 3
    /\ OverlapAcross(gvCanvas.panels[0].cells[<<0, 0>>],
                     gvCanvas.panels[0].cells[<<0, 1>>]) = 1
    /\ OverlapAcross(gvCanvas.panels[0].cells[<<0, 1>>],
                     gvCanvas.panels[0].cells[<<0, 2>>]) = 0
    /\ OverlapDown(gvCanvas.panels[0].cells[<<0, 0>>],
                   gvCanvas.panels[0].cells[<<1, 0>>]) = 1

(***************************************************************************)
(* Client claims, checked under SpecClient.                                *)
(***************************************************************************)
ReservedPrefix == <<"_">>

\* the names of sub appear in full, in the order they have there
InListedOrder(sub, full) ==
    \A i, j \in DOMAIN sub :
        i < j => \E p, q \in DOMAIN full :
                    p < q /\ full[p] = sub[i] /\ full[q] = sub[j]

\* C13: no name offered to the user carries the reserved prefix "_", and
\* within each kind group the names keep the order of the store's list.
C13_PrefixedNamesHidden ==
    /\ \A name \in Offered : ~startsWith(name, ReservedPrefix)
    /\ \A list \in {colorAttributes, textAttributes, gridAttributes} :
        /\ \A i \in DOMAIN list : ~startsWith(list[i], ReservedPrefix)
        /\ Range(list) \subseteq Range(attrFetch.listed)
        /\ InListedOrder(list, attrFetch.listed)

C13_Witness ==
    /\ attrFetch.pc = "done"
    /\ attrFetch.listed = <<AttrObs, AttrAux, AttrLat, AttrVal, AttrAct>>
    /\ colorAttributes = <<AttrObs>>
    /\ textAttributes = <<AttrVal, AttrAct>>
    /\ gridAttributes = <<AttrLat>>
    /\ Offered = {AttrObs, AttrLat, AttrVal, AttrAct}

\* C14: after every successful upload the client requests attributes, dtypes
\* and num_timesteps again: once every upload is answered and those requests
\* have succeeded, the attribute list and the timestep count in use are the
\* ones of the store the server now holds.
C14_RefetchedAfterUpload ==
    (/\ fileUploaded
     /\ uploads = {}
     /\ attrFetch.pc = "done"
     /\ numFetch = "done") =>
        /\ numTimesteps = Stores[serverStore].num_timesteps
        /\ attrFetch.listed = Stores[serverStore].attributes

\* C15: while the last query answered (attributes, dtypes, num_timesteps or
\* timestep data) is one that failed, by a non-OK response or a network
\* failure, the page shows a message.
C15_FailedQueryShown ==
    (lastQuery.kind # "none" /\ lastQuery.outcome # "ok") => VisibleMessage # ""

\* C16: a failed timestep-data request leaves the displayed data, the three
\* attribute selections and the current timestep as they were.
C16_FailedDataKeepsState ==
    [][(/\ dataInFlight' \subseteq dataInFlight
        /\ dataInFlight' # dataInFlight
        /\ lastQuery'.kind = "data"
        /\ lastQuery'.outcome # "ok") =>
            UNCHANGED <<data, gridData, selectedColorAttributes,
                        selectedGridAttributes, selectedTextAttributes,
                        timestep>>]_vars

C16_Witness ==
    /\ lastQuery = [kind |-> "data", outcome |-> "not-ok"]
    /\ dataInFlight = {}
    /\ timestep = 1
    /\ data = Payload("a.h5", 0)
    /\ selectedGridAttributes = <<AttrLat>>
    /\ selectedColorAttributes = <<AttrObs>>
    /\ AttrLat \in DOMAIN gridData

\* C18: once a store is loaded the current timestep t satisfies
\* 0 <= t < num_timesteps of that store, and no request asks for timestep
\* data outside [0, num_timesteps).
C18_TimestepInRange ==
    fileUploaded =>
        /\ 0 <= timestep
        /\ timestep < Stores[serverStore].num_timesteps
        /\ \A r \in dataInFlight : r.uploaded => ServesTimestep(r.t)

\* C19: when every data request has succeeded and none is in flight, the
\* data held is the response for the current timestep.
C19_LatestResponseShown ==
    (/\ fileUploaded
     /\ dataInFlight = {}
     /\ ~dataFailed
     /\ data # <<>>) =>
        \E id \in DOMAIN Stores : data = Payload(id, timestep)

\* C20: every GET /data request is issued after an upload returned OK.
C20_NoDataBeforeUpload ==
    \A r \in dataInFlight : r.uploaded

(***************************************************************************)
(* The shape of the grid, checked under SpecLayout.                        *)
(***************************************************************************)
\* cols <= rows <= cols + 2, and the last row holds a panel
NearSquare(cols, rows, D) ==
    /\ cols <= rows
    /\ rows <= cols + 2
    /\ (rows - 1) * cols < D

\* C23: for every D >= 1 the grid of both renderers is near-square with
\* cols <= rows <= cols + 2, and its last row is not empty:
\* (rows - 1) * cols < D.
C23_NearSquare ==
    /\ gvCanvas.drawn => NearSquare(gvCanvas.cols, gvCanvas.rows, numPanels)
    /\ fvCanvas.drawn => NearSquare(fvCanvas.cols, fvCanvas.rows, numPanels)

\* D = 8 is laid out 2 x 4: rows = cols + 2, and the fourth row is used
C23_Witness ==
    /\ gvCanvas.drawn
    /\ fvCanvas.drawn
    /\ numPanels = 8
    /\ <<gvCanvas.cols, gvCanvas.rows>> = <<2, 4>>
    /\ fvCanvas.rows = fvCanvas.cols + 2
    /\ 6 \in PanelIds(gvCanvas)
    /\ gvCanvas.panels[6].row = 3

(***************************************************************************)
(* The upload screen, checked under SpecClient.                            *)
(***************************************************************************)
\* an upload has just been answered
UploadAnswered == uploads' \subseteq uploads /\ uploads' # uploads

\* the upload screen's failure messages
FailureMessages == {"File upload failed.", "Error uploading file."}

\* C24: when an upload fails (a non-OK response or a network error: the
\* server has loaded no store) the client shows a failure message, does not
\* notify the parent and stays on the upload screen, issuing none of the
\* viewer's requests; the viewer is first shown on an upload that returned
\* OK, and once shown it stays.
C24_FailedUploadStays ==
    [][/\ (UploadAnswered /\ ~fileUploaded /\ serverStore' = Null) =>
            /\ message' \in FailureMessages
            /\ VisibleMessage' = message'
            /\ UNCHANGED <<fileUploaded, attrFetch, numFetch, dataInFlight>>
       /\ (fileUploaded' /\ ~fileUploaded) =>
            /\ UploadAnswered
            /\ serverStore' \in uploads
            /\ message' = "File uploaded successfully!"
       /\ fileUploaded => fileUploaded']_vars

C24_Witness ==
    /\ mounted
    /\ ~fileUploaded
    /\ uploads = {}
    /\ file # Null
    /\ serverStore = Null
    /\ message = "Error uploading file."
    /\ attrFetch = NoFetch
    /\ numFetch = "idle"

(***************************************************************************)
(* The selection lists, checked under SpecClient.                          *)
(***************************************************************************)
SelectionKinds == {"color", "grid", "text"}

\* the group a checkbox is rendered in
KindGroup(attr) ==
    IF attr \in Range(colorAttributes) THEN "color"
    ELSE IF attr \in Range(gridAttributes) THEN "grid"
    ELSE "text"

NoDuplicate(seq) == \A i, j \in DOMAIN seq : seq[i] = seq[j] => i = j

\* the membership of attr, and of nothing else, differs between the lists
Flipped(before, after, attr) ==
    Range(after) = IF attr \in Range(before) THEN Range(before) \ {attr}
                   ELSE Range(before) \cup {attr}

\* a step that changed a selection list is the toggle of one offered
\* attribute: it flipped the attribute in the list of its kind and left the
\* other two lists alone
ToggledOwnKind(attr) ==
    /\ Flipped(Selections[KindGroup(attr)], Selections'[KindGroup(attr)], attr)
    /\ \A k \in SelectionKinds \ {KindGroup(attr)} : Selections'[k] = Selections[k]

\* the lists after the same checkbox is toggled once more
ToggledAgain(attr) ==
    (toggleAttribute(attr, KindGroup(attr) = "color", KindGroup(attr) = "grid",
                     Selections))'

\* attr was unselected, or the last entry of its list, before the step
UnselectedOrLast(attr) ==
    LET before == Selections[KindGroup(attr)]
    IN  attr \in Range(before) => before[Len(before)] = attr

\* C22 (as stated): a toggle flips the attribute in exactly the selection
\* list of its kind, no list ever holds a duplicate, and a second toggle of
\* the same attribute restores the previous selection lists.
C22_DoubleToggleRestoresLists ==
    [][Selections' # Selections =>
         \E attr \in Offered :
             /\ ToggledOwnKind(attr)
             /\ \A k \in SelectionKinds : NoDuplicate(Selections'[k])
             /\ ToggledAgain(attr) = Selections]_vars

\* C22: a toggle flips the membership of the attribute in exactly the
\* selection list of its kind and leaves the other two lists unchanged; no
\* list ever holds a duplicate; a second toggle of the same attribute
\* restores the set of selected attributes of each kind, and the lists
\* themselves when the attribute was unselected or the last entry of its
\* list (otherwise the attribute comes back at the end of the list).
C22_ToggleFlipsOwnKind ==
    [][Selections' # Selections =>
         \E attr \in Offered :
             /\ ToggledOwnKind(attr)
             /\ \A k \in SelectionKinds : NoDuplicate(Selections'[k])
             /\ \A k \in SelectionKinds :
                    Range(ToggledAgain(attr)[k]) = Range(Selections[k])
             /\ UnselectedOrLast(attr) => ToggledAgain(attr) = Selections
             /\ ~UnselectedOrLast(attr) =>
                    ToggledAgain(attr)[KindGroup(attr)] =
                        Append(Selections'[KindGroup(attr)], attr)]_vars

C22_Witness ==
    /\ fileUploaded
    /\ textAttributes = <<AttrVal, AttrAct>>
    /\ selectedTextAttributes = <<AttrAct, AttrVal>>
    /\ selectedGridAttributes = <<AttrLat>>
    /\ selectedColorAttributes = <<>>

(***************************************************************************)
(* What the sidebar offers, checked under SpecClient.                      *)
(***************************************************************************)
SidebarKinds == {"RlvizType.COLOR", "RlvizType.GRID", "RlvizType.TEXT"}

\* the kind groups that show a checkbox for name
GroupsOffering(name) ==
    {k \in SelectionKinds :
        /\ name \in Offered
        /\ name \in Range(CASE k = "color" -> colorAttributes
                            [] k = "grid" -> gridAttributes
                            [] OTHER -> textAttributes)}

\* C21: once /attributes and /dtypes have been fetched successfully, every
\* listed name without the reserved prefix whose kind is COLOR, GRID or TEXT
\* has a checkbox in the sidebar, in exactly one kind group, whatever the mix
\* of kinds (a store of GRID attributes only included).
C21_EveryAttributeOffered ==
    (fileUploaded /\ attrFetch.pc = "done") =>
        \A name \in Range(attrFetch.listed) :
            (/\ ~startsWith(name, ReservedPrefix)
             /\ name \in DOMAIN attrFetch.dtypes
             /\ attrFetch.dtypes[name] \in SidebarKinds) =>
                Cardinality(GroupsOffering(name)) = 1

====
